---- MODULE Spec2Model ----
(***************************************************************************)
(* Model of wf/entrypoint.py of nf-core/viralintegration on Latch: the     *)
(* workflow nf_nf_core_viralintegration runs the task initialize (storage  *)
(* provisioning) and then the task nextflow_runtime (staging, command      *)
(* construction, child process, log upload in a finally block).            *)
(***************************************************************************)
EXTENDS Integers, Sequences, FiniteSets, TLC

VARIABLES
    token,      \* os.environ.get("FLYTE_INTERNAL_EXECUTION_ID"), None when unset
    params,     \* the workflow's typed inputs
    tree,       \* the source tree /root: path -> "file" | "dir" | "dangling"
    pc,         \* position of the workflow
    posts,      \* the requests.post calls sent, in order
    resp,       \* the provisioning response, <<>> before there is one
    pvc_name,   \* initialize()'s return value, None before
    copied,     \* the paths shutil.copytree created under /nf-workdir
    cmd,        \* the command line, <<>> before it is built
    child,      \* the child processes run, in order, each with its returncode
    pending,    \* the exception raised inside the try block, NoExc when none
    lookups,    \* the nextflow_log.exists() results, in order
    resolved,   \* the _get_execution_name() results, in order
    uploads,    \* the remote paths upload_from was called for, in order
    printed,    \* the diagnostics of the finally block, in order
    finErr,     \* the exception raised inside the finally block, NoExc when none
    result      \* what the workflow surfaces to its caller, Running before

vars == <<token, params, tree, pc, posts, resp, pvc_name, copied, cmd, child,
          pending, lookups, resolved, uploads, printed, finErr, result>>

(***************************************************************************)
(* Bounds of the model.                                                    *)
(***************************************************************************)
MaxDepth == 3       \* longest path of the source tree
MaxEntries == 4     \* most entries of the source tree

None == "None"

Exc(kind, code) == [kind |-> kind, code |-> code]
NoExc == Exc("none", 0)
Running == Exc("running", 0)
Returned == Exc("returned", 0)

(***************************************************************************)
(* Values of the parameters, tagged with their Python type.                *)
(***************************************************************************)
NoneVal == [t |-> "none"]
StrVal(s) == [t |-> "str", s |-> s]
IntVal(i) == [t |-> "int", i |-> i]
BoolVal(b) == [t |-> "bool", b |-> b]
FileVal(p) == [t |-> "file", remote_path |-> p]

(***************************************************************************)
(* str(int) as get_flag applies it to an integer value: decimal digits,    *)
(* most significant first, "-" before a negative number.                   *)
(***************************************************************************)
Digits == <<"0", "1", "2", "3", "4", "5", "6", "7", "8", "9">>

RECURSIVE NatToStr(_)
NatToStr(n) ==
    IF n < 10 THEN Digits[n + 1]
    ELSE NatToStr(n \div 10) \o Digits[(n % 10) + 1]

IntToStr(i) == IF i < 0 THEN "-" \o NatToStr(-i) ELSE NatToStr(i)

(***************************************************************************)
(* latch_cli.nextflow.workflow.get_flag, the shared flag-translation rule: *)
(* no token for an absent value, the runner's boolean syntax for a         *)
(* boolean (the bare flag for true; false is encoded, not omitted), and    *)
(* --name value otherwise.                                                 *)
(***************************************************************************)
get_flag(name, val) ==
    LET flag == "--" \o name
    IN  CASE val.t = "none" -> <<>>
          [] val.t = "bool" -> IF val.b THEN <<flag>> ELSE <<flag, "false">>
          [] val.t = "file" -> <<flag, val.remote_path>>
          [] val.t = "int"  -> <<flag, IntToStr(val.i)>>
          [] val.t = "str"  -> <<flag, val.s>>

shared_dir == "/nf-workdir"

(***************************************************************************)
(* The parameters of nextflow_runtime in the order its signature declares  *)
(* them (pvc_name aside).                                                  *)
(***************************************************************************)
DeclaredOrder ==
    <<"input", "viral_fasta", "outdir", "email", "multiqc_title", "genome",
      "fasta", "gtf", "multiqc_methods_description", "min_reads", "max_hits",
      "remove_duplicates">>

RequiredFields == {"input", "viral_fasta", "outdir"}

OptionalFields ==
    {"email", "multiqc_title", "genome", "fasta", "gtf",
     "multiqc_methods_description"}

(***************************************************************************)
(* The cmd list of nextflow_runtime.                                       *)
(***************************************************************************)
BuildCommandSwapped(p) ==
    <<"/root/nextflow", "run", shared_dir \o "/main.nf", "-work-dir",
      shared_dir, "-profile", "docker", "-c", "latch.config">>
    \o get_flag("input", p.input)
    \o get_flag("viral_fasta", p.viral_fasta)
    \o get_flag("outdir", p.outdir)
    \o get_flag("email", p.email)
    \o get_flag("multiqc_title", p.multiqc_title)
    \o get_flag("max_hits", p.max_hits)
    \o get_flag("min_reads", p.min_reads)
    \o get_flag("remove_duplicates", p.remove_duplicates)
    \o get_flag("genome", p.genome)
    \o get_flag("fasta", p.fasta)
    \o get_flag("gtf", p.gtf)
    \o get_flag("multiqc_methods_description", p.multiqc_methods_description)

OrEmpty(val) == IF val.t = "none" THEN StrVal("") ELSE val

BuildCommandOrEmpty(p) ==
    <<"/root/nextflow", "run", shared_dir \o "/main.nf", "-work-dir",
      shared_dir, "-profile", "docker", "-c", "latch.config">>
    \o get_flag("input", p.input)
    \o get_flag("viral_fasta", p.viral_fasta)
    \o get_flag("outdir", p.outdir)
    \o get_flag("email", OrEmpty(p.email))
    \o get_flag("multiqc_title", p.multiqc_title)
    \o get_flag("min_reads", p.min_reads)
    \o get_flag("max_hits", p.max_hits)
    \o get_flag("remove_duplicates", p.remove_duplicates)
    \o get_flag("genome", p.genome)
    \o get_flag("fasta", p.fasta)
    \o get_flag("gtf", p.gtf)
    \o get_flag("multiqc_methods_description", p.multiqc_methods_description)

BuildCommand(p) ==
    <<"/root/nextflow", "run", shared_dir \o "/main.nf", "-work-dir",
      shared_dir, "-profile", "docker", "-c", "latch.config">>
    \o get_flag("input", p.input)
    \o get_flag("viral_fasta", p.viral_fasta)
    \o get_flag("outdir", p.outdir)
    \o get_flag("email", p.email)
    \o get_flag("multiqc_title", p.multiqc_title)
    \o get_flag("min_reads", p.min_reads)
    \o get_flag("max_hits", p.max_hits)
    \o get_flag("remove_duplicates", p.remove_duplicates)
    \o get_flag("genome", p.genome)
    \o get_flag("fasta", p.fasta)
    \o get_flag("gtf", p.gtf)
    \o get_flag("multiqc_methods_description", p.multiqc_methods_description)

(***************************************************************************)
(* The staging of /root into /nf-workdir.                                  *)
(***************************************************************************)
ignore_list ==
    {"latch", ".latch", "nextflow", ".nextflow", "work", "results",
     "miniconda", "anaconda3", "mambaforge"}

\* os.scandir(dir): the entries directly under dir
Entries(t, dir) ==
    {p \in DOMAIN t : Len(p) = Len(dir) + 1 /\ SubSeq(p, 1, Len(dir)) = dir}

ignoreTopOnly(src, names) == IF src = <<>> THEN ignore_list ELSE {}

\* the ignore callable handed to copytree: the names skipped in directory src
ignore(src, names) == ignore_list

\* shutil.copytree(..., symlinks=False, ignore=..., ignore_dangling_symlinks=True):
\* the paths created under the destination when no copy fails
RECURSIVE copytree(_, _)
copytree(t, src) ==
    LET entries == Entries(t, src)
        ignored_names == ignore(src, {p[Len(p)] : p \in entries})
        kept == {p \in entries : p[Len(p)] \notin ignored_names}
    IN  UNION { CASE t[p] = "dir"      -> {p} \cup copytree(t, p)
                  [] t[p] = "dangling" -> {}
                  [] t[p] = "file"     -> {p} : p \in kept }

(***************************************************************************)
(* Inputs.                                                                 *)
(***************************************************************************)
Presence(v) == {NoneVal, v}

AllParams ==
    [input : {FileVal("latch:///samplesheet.csv")},
     viral_fasta : {FileVal("latch:///virus.fa")},
     outdir : {FileVal("latch:///out")},
     email : Presence(StrVal("a@b.org")),
     multiqc_title : Presence(StrVal("run1")),
     genome : Presence(StrVal("GRCh38")),
     fasta : Presence(FileVal("latch:///genome.fa")),
     gtf : Presence(FileVal("latch:///genes.gtf")),
     multiqc_methods_description : Presence(StrVal("methods.yml")),
     min_reads : {IntVal(5), IntVal(12)},
     max_hits : {IntVal(50)},
     remove_duplicates : {BoolVal(TRUE), BoolVal(FALSE)}]

\* the workflow's defaults, every optional input absent
DefaultParams ==
    [input |-> FileVal("latch:///samplesheet.csv"),
     viral_fasta |-> FileVal("latch:///virus.fa"),
     outdir |-> FileVal("latch:///out"),
     email |-> NoneVal,
     multiqc_title |-> NoneVal,
     genome |-> NoneVal,
     fasta |-> NoneVal,
     gtf |-> NoneVal,
     multiqc_methods_description |-> NoneVal,
     min_reads |-> IntVal(5),
     max_hits |-> IntVal(50),
     remove_duplicates |-> BoolVal(TRUE)]

TreeNames == {"work", "bin", "main.nf"}
\* a live symbolic link is copied as the file or directory it points to
Kinds == {"file", "dir", "dangling"}
EmptyTree == <<>>

\* a source tree as the image build leaves it
DefaultTree ==
    (<<"main.nf">> :> "file") @@ (<<"bin">> :> "dir")
    @@ (<<"bin", "work">> :> "dir") @@ (<<"work">> :> "dir")

Tokens == {None, "exec-token"}
StatusCodes == {200, 404, 500}
Bodies == {[name |-> "pvc-1"], [detail |-> "x"]}
ReturnCodes == {0, 1, 2}
ExecutionNames == {None, "exec-1"}

InitRun ==
    /\ pc = "initialize"
    /\ posts = <<>>
    /\ resp = <<>>
    /\ pvc_name = None
    /\ copied = {}
    /\ cmd = <<>>
    /\ child = <<>>
    /\ pending = NoExc
    /\ lookups = <<>>
    /\ resolved = <<>>
    /\ uploads = <<>>
    /\ printed = <<>>
    /\ finErr = NoExc
    /\ result = Running

Init ==
    /\ token \in Tokens
    /\ params \in AllParams
    /\ tree = DefaultTree
    /\ InitRun

InitStage ==
    /\ token = "exec-token"
    /\ params = DefaultParams
    /\ tree = EmptyTree
    /\ InitRun

(***************************************************************************)
(* The image build places an entry in /root before the workflow starts.    *)
(***************************************************************************)
Place ==
    /\ pc = "initialize"
    /\ Cardinality(DOMAIN tree) < MaxEntries
    /\ \E parent \in {<<>>} \cup {d \in DOMAIN tree : tree[d] = "dir"} :
       \E nm \in TreeNames :
       \E kind \in Kinds :
          /\ Len(parent) < MaxDepth
          /\ Append(parent, nm) \notin DOMAIN tree
          /\ tree' = tree @@ (Append(parent, nm) :> kind)
    /\ UNCHANGED <<token, params, pc, posts, resp, pvc_name, copied, cmd, child,
                   pending, lookups, resolved, uploads, printed, finErr, result>>

(***************************************************************************)
(* initialize(): the token, the provisioning request, the volume name.     *)
(***************************************************************************)
Post ==
    [url |-> "http://nf-dispatcher-service.flyte.svc.cluster.local/provision-storage",
     Authorization |-> "Latch-Execution-Token " \o token,
     storage_gib |-> 100]

Fail(e) ==
    /\ result' = e
    /\ pc' = "done"

initializePostFirst ==
    /\ pc = "initialize"
    /\ posts' = Append(posts, Post)
    /\ IF token = None
         THEN /\ Fail(Exc("RuntimeError", 0))
              /\ UNCHANGED <<resp, pvc_name>>
         ELSE \E status \in StatusCodes, body \in Bodies :
                /\ resp' = <<[status_code |-> status, json |-> body]>>
                /\ IF status >= 400
                     THEN Fail(Exc("HTTPError", status)) /\ UNCHANGED pvc_name
                     ELSE IF "name" \notin DOMAIN body
                            THEN Fail(Exc("KeyError", 0)) /\ UNCHANGED pvc_name
                            ELSE /\ pvc_name' = body.name
                                 /\ pc' = "stage"
                                 /\ UNCHANGED result
    /\ UNCHANGED <<token, params, tree, copied, cmd, child, pending, lookups,
                   resolved, uploads, printed, finErr>>

initializeNoRaiseForStatus ==
    /\ pc = "initialize"
    /\ IF token = None
         THEN /\ Fail(Exc("RuntimeError", 0))
              /\ UNCHANGED <<posts, resp, pvc_name>>
         ELSE \E status \in StatusCodes, body \in Bodies :
                /\ posts' = Append(posts, Post)
                /\ resp' = <<[status_code |-> status, json |-> body]>>
                /\ IF "name" \notin DOMAIN body
                     THEN Fail(Exc("KeyError", 0)) /\ UNCHANGED pvc_name
                     ELSE /\ pvc_name' = body.name
                          /\ pc' = "stage"
                          /\ UNCHANGED result
    /\ UNCHANGED <<token, params, tree, copied, cmd, child, pending, lookups,
                   resolved, uploads, printed, finErr>>

initialize ==
    /\ pc = "initialize"
    /\ IF token = None
         THEN /\ Fail(Exc("RuntimeError", 0))
              /\ UNCHANGED <<posts, resp, pvc_name>>
         ELSE \E status \in StatusCodes, body \in Bodies :
                /\ posts' = Append(posts, Post)
                /\ resp' = <<[status_code |-> status, json |-> body]>>
                /\ IF status >= 400
                     THEN Fail(Exc("HTTPError", status)) /\ UNCHANGED pvc_name
                     ELSE IF "name" \notin DOMAIN body
                            THEN Fail(Exc("KeyError", 0)) /\ UNCHANGED pvc_name
                            ELSE /\ pvc_name' = body.name
                                 /\ pc' = "stage"
                                 /\ UNCHANGED result
    /\ UNCHANGED <<token, params, tree, copied, cmd, child, pending, lookups,
                   resolved, uploads, printed, finErr>>

(***************************************************************************)
(* nextflow_runtime, the try block: staging, then the command line and the *)
(* child process.                                                          *)
(***************************************************************************)
\* copytree goes on after a failed copy and raises shutil.Error at its end
Stage ==
    /\ pc = "stage"
    /\ LET full == copytree(tree, <<>>)
           files == {p \in full : tree[p] = "file"}
       IN  \E failed \in {{}} \cup {{f} : f \in files} :
              /\ copied' = full \ failed
              /\ IF failed = {}
                   THEN pc' = "execute" /\ UNCHANGED pending
                   ELSE pc' = "finally" /\ pending' = Exc("shutil.Error", 0)
    /\ UNCHANGED <<token, params, tree, posts, resp, pvc_name, cmd, child,
                   lookups, resolved, uploads, printed, finErr, result>>

Run(args, rc) ==
    [args |-> args, cwd |-> shared_dir, K8S_STORAGE_CLAIM_NAME |-> pvc_name,
     returncode |-> rc]

ExecuteNoFinally ==
    /\ pc = "execute"
    /\ cmd' = BuildCommand(params)
    /\ \E rc \in ReturnCodes :
          /\ child' = Append(child, Run(cmd', rc))
          /\ IF rc # 0
               THEN /\ pending' = Exc("CalledProcessError", rc)
                    /\ Fail(pending')
               ELSE /\ pc' = "finally"
                    /\ UNCHANGED <<pending, result>>
    /\ UNCHANGED <<token, params, tree, posts, resp, pvc_name, copied, lookups,
                   resolved, uploads, printed, finErr>>

\* subprocess.run(cmd, env=env, check=True, cwd=str(shared_dir))
Execute ==
    /\ pc = "execute"
    /\ cmd' = BuildCommand(params)
    /\ \E rc \in ReturnCodes :
          /\ child' = Append(child, Run(cmd', rc))
          /\ pending' = IF rc # 0 THEN Exc("CalledProcessError", rc) ELSE NoExc
    /\ pc' = "finally"
    /\ UNCHANGED <<token, params, tree, posts, resp, pvc_name, copied, lookups,
                   resolved, uploads, printed, finErr, result>>

(***************************************************************************)
(* nextflow_runtime, the finally block.                                    *)
(***************************************************************************)
nextflow_log == shared_dir \o "/.nextflow.log"

LogLookupNoCheck ==
    /\ pc = "finally"
    /\ \E exists \in BOOLEAN :
          /\ lookups' = Append(lookups, [path |-> nextflow_log, exists |-> exists])
          /\ pc' = "resolve"
    /\ UNCHANGED <<token, params, tree, posts, resp, pvc_name, copied, cmd,
                   child, pending, resolved, uploads, printed, finErr, result>>

\* nextflow_log.exists()
LogLookup ==
    /\ pc = "finally"
    /\ \E exists \in BOOLEAN :
          /\ lookups' = Append(lookups, [path |-> nextflow_log, exists |-> exists])
          /\ pc' = IF exists THEN "resolve" ELSE "exit"
    /\ UNCHANGED <<token, params, tree, posts, resp, pvc_name, copied, cmd,
                   child, pending, resolved, uploads, printed, finErr, result>>

\* name = _get_execution_name(): Optional[str], a name or None
ResolveName ==
    /\ pc = "resolve"
    /\ \E name \in ExecutionNames :
          /\ resolved' = Append(resolved, name)
          /\ IF name = None
               THEN /\ printed' = Append(printed,
                           "Skipping logs upload, failed to get execution name")
                    /\ pc' = "exit"
               ELSE /\ pc' = "upload"
                    /\ UNCHANGED printed
    /\ UNCHANGED <<token, params, tree, posts, resp, pvc_name, copied, cmd,
                   child, pending, lookups, uploads, finErr, result>>

urljoins(a, b, c) == a \o "/" \o b \o "/" \o c

\* remote.upload_from(nextflow_log): done, or an exception of the upload
Upload ==
    /\ pc = "upload"
    /\ LET remote == urljoins("latch:///your_log_dir/nf_nf_core_viralintegration",
                              resolved[Len(resolved)], "nextflow.log")
       IN  /\ printed' = Append(printed, "Uploading .nextflow.log to " \o remote)
           /\ uploads' = Append(uploads, remote)
    /\ \E ok \in BOOLEAN :
          finErr' = IF ok THEN NoExc ELSE Exc("upload_from", 0)
    /\ pc' = "exit"
    /\ UNCHANGED <<token, params, tree, posts, resp, pvc_name, copied, cmd,
                   child, pending, lookups, resolved, result>>

\* the end of the finally block: an exception raised in it replaces the one
\* of the try block, which is re-raised otherwise
Exit ==
    /\ pc = "exit"
    /\ result' = IF finErr # NoExc THEN finErr
                 ELSE IF pending # NoExc THEN pending
                 ELSE Returned
    /\ pc' = "done"
    /\ UNCHANGED <<token, params, tree, posts, resp, pvc_name, copied, cmd,
                   child, pending, lookups, resolved, uploads, printed, finErr>>

(***************************************************************************)
(* The workflow nf_nf_core_viralintegration: initialize, then              *)
(* nextflow_runtime with its result.                                       *)
(***************************************************************************)
nextflow_runtime ==
    \/ Stage
    \/ Execute
    \/ LogLookup
    \/ ResolveName
    \/ Upload
    \/ Exit

Next ==
    \/ initialize
    \/ nextflow_runtime

Spec == Init /\ [][Next]_vars

NextStage ==
    \/ Place
    \/ Next

SpecStage == InitStage /\ [][NextStage]_vars

(***************************************************************************)
(* Properties.                                                             *)
(***************************************************************************)
\* the positions of the flag token of field f in command line c
FlagAt(c, f) == {i \in DOMAIN c : c[i] = "--" \o f}

\* some component of path p is a denylisted name
Denied(p) == \E i \in DOMAIN p : p[i] \in ignore_list

StagingDone == pvc_name # None /\ pc \notin {"initialize", "stage"}
StagingOK == StagingDone /\ pending.kind # "shutil.Error"

ChildFailed == child # <<>> /\ child[1].returncode # 0
LogAbsent == lookups # <<>> /\ ~lookups[1].exists

\* C1: once the child has exited non-zero, no error is surfaced to the caller
\* before the lookup of /nf-workdir/.nextflow.log has been attempted.
C1_FinalizeBeforeError ==
    (ChildFailed /\ result # Running) =>
        /\ Len(lookups) = 1
        /\ lookups[1].path = nextflow_log

C1_Witness ==
    /\ ChildFailed
    /\ result = Exc("CalledProcessError", child[1].returncode)
    /\ Len(lookups) = 1

\* C2: whenever the child exits non-zero, the error the launch surfaces is the
\* child's execution error, whatever happens in the finally block.
C2_ChildErrorNeverMasked ==
    (ChildFailed /\ pc = "done") =>
        result = Exc("CalledProcessError", child[1].returncode)

\* C3 as stated: the flag groups of the command line follow the declared
\* parameter order of the signature.
C3_DeclaredOrder ==
    cmd # <<>> =>
        \A i, j \in DOMAIN DeclaredOrder :
            i < j => \A a \in FlagAt(cmd, DeclaredOrder[i]) :
                     \A b \in FlagAt(cmd, DeclaredOrder[j]) : a < b

EmittedOrder ==
    <<"input", "viral_fasta", "outdir", "email", "multiqc_title", "min_reads",
      "max_hits", "remove_duplicates", "genome", "fasta", "gtf",
      "multiqc_methods_description">>

\* C3 as amended: the flag groups follow the fixed order input, viral_fasta,
\* outdir, email, multiqc_title, min_reads, max_hits, remove_duplicates,
\* genome, fasta, gtf, multiqc_methods_description, each at most once; with the
\* defaults the tokens --min_reads 5 --max_hits 50 --remove_duplicates are
\* adjacent, after multiqc_title and before genome.
C3_EmittedOrder ==
    cmd # <<>> =>
        /\ \A i, j \in DOMAIN EmittedOrder :
              i < j => \A a \in FlagAt(cmd, EmittedOrder[i]) :
                       \A b \in FlagAt(cmd, EmittedOrder[j]) : a < b
        /\ \A i \in DOMAIN EmittedOrder :
              Cardinality(FlagAt(cmd, EmittedOrder[i])) <= 1
        /\ (/\ params.min_reads = IntVal(5)
            /\ params.max_hits = IntVal(50)
            /\ params.remove_duplicates = BoolVal(TRUE)) =>
              \E k \in DOMAIN cmd :
                 /\ k + 4 <= Len(cmd)
                 /\ SubSeq(cmd, k, k + 4) =
                      <<"--min_reads", "5", "--max_hits", "50", "--remove_duplicates">>

C3_Witness ==
    /\ cmd # <<>>
    /\ params.genome # NoneVal
    /\ params.multiqc_title # NoneVal
    /\ params.min_reads = IntVal(5)
    /\ params.remove_duplicates = BoolVal(TRUE)

\* C4: an absent optional field leaves no --name token and no empty value in
\* the command line; each required field contributes --name and its value.
C4_AbsentOptionalOmitted ==
    cmd # <<>> =>
        /\ \A f \in OptionalFields :
              params[f] = NoneVal => FlagAt(cmd, f) = {}
        /\ \A i \in DOMAIN cmd : cmd[i] # ""
        /\ \A f \in RequiredFields :
              \E i \in FlagAt(cmd, f) :
                 i < Len(cmd) /\ cmd[i + 1] = params[f].remote_path

C4_Witness ==
    /\ cmd # <<>>
    /\ params.email = NoneVal
    /\ params.gtf = NoneVal
    /\ params.genome # NoneVal

\* C5: with the execution token unset the run ends in the configuration error
\* (RuntimeError) with no request sent, nothing staged and no child run.
C5_NoTokenNoRequest ==
    token = None =>
        /\ posts = <<>>
        /\ copied = {}
        /\ child = <<>>
        /\ pc \in {"initialize", "done"}
        /\ pc = "done" => result = Exc("RuntimeError", 0)

C5_Witness ==
    /\ token = None
    /\ pc = "done"
    /\ result.kind = "RuntimeError"

\* C6: a non-success status of the provisioning endpoint ends the run in the
\* provisioning error (HTTPError) with no child run; a child only runs with the
\* volume name initialize returned, and the request is sent at most once.
C6_ProvisioningFailureNoChild ==
    /\ (resp # <<>> /\ resp[1].status_code >= 400) =>
          /\ pc = "done"
          /\ result = Exc("HTTPError", resp[1].status_code)
          /\ pvc_name = None
          /\ copied = {}
          /\ child = <<>>
    /\ Len(posts) <= 1
    /\ child # <<>> =>
          /\ pvc_name # None
          /\ child[1].K8S_STORAGE_CLAIM_NAME = pvc_name
          /\ resp # <<>>
          /\ resp[1].status_code < 400
          /\ resp[1].json.name = pvc_name

C6_Witness ==
    /\ resp # <<>>
    /\ resp[1].status_code = 500
    /\ pc = "done"
    /\ result.kind = "HTTPError"

C8_AbsentLogNoError ==
    LogAbsent =>
        /\ resolved = <<>>
        /\ uploads = <<>>
        /\ finErr = NoExc
        /\ pc \in {"exit", "done"}
        /\ pc = "done" =>
              /\ result = IF pending # NoExc THEN pending ELSE Returned
              /\ child # <<>> =>
                    result = IF child[1].returncode = 0 THEN Returned
                             ELSE Exc("CalledProcessError", child[1].returncode)

C8_Witness ==
    /\ LogAbsent
    /\ ChildFailed
    /\ pc = "done"
    /\ result.kind = "CalledProcessError"

\* C9: the log upload is best-effort: with the log present and no execution
\* name the finally block prints a diagnostic, uploads nothing and returns
\* normally; an upload needs the log and a name and happens at most once; no
\* problem of the upload path becomes a failure of the launch.
C9_UploadBestEffort ==
    /\ (pc = "done" /\ resolved # <<>> /\ resolved[1] = None) =>
          /\ uploads = <<>>
          /\ printed = <<"Skipping logs upload, failed to get execution name">>
          /\ result = IF pending # NoExc THEN pending ELSE Returned
    /\ Len(uploads) <= 1
    /\ uploads # <<>> =>
          /\ lookups # <<>> /\ lookups[1].exists
          /\ resolved # <<>> /\ resolved[1] \in ExecutionNames \ {None}
    /\ finErr = NoExc
    /\ result.kind # "upload_from"

\* C10: when staging raises, no child is started, the log lookup is still
\* attempted at /nf-workdir/.nextflow.log and the staging error is what
\* surfaces; a child is spawned at most once and only after staging completed
\* without error.
C10_StagingFailureSurfaces ==
    /\ (pc = "done" /\ pending.kind = "shutil.Error") =>
          /\ child = <<>>
          /\ Len(lookups) = 1
          /\ lookups[1].path = nextflow_log
          /\ result = pending
    /\ Len(child) <= 1
    /\ child # <<>> => StagingOK /\ copied = copytree(tree, <<>>)

====
